---- MODULE Spec2Model ----
(***************************************************************************)
(* One-way folder synchronization (FolderSynchronizer): the source tree,   *)
(* the replica tree, the process-lifetime hash cache, and sync_folders()   *)
(* as preflight, source walk (copy) and replica walk (prune).              *)
(*                                                                         *)
(* Time is the integer second that get_file_metadata keeps of st_mtime and *)
(* st_ctime.  A file's owner is kept as uid and gid; a copy never changes  *)
(* the owner of the destination (shutil.copy2 and shutil.copystat do not   *)
(* chown), and every copy or copystat sets the destination's ctime to the  *)
(* current second (ctime cannot be set by a program).                      *)
(***************************************************************************)
EXTENDS Naturals, Sequences, FiniteSets, TLC

\* Bounds of the model.
MaxTime == 2
MaxEdits == 2
MaxLen == 1

----------------------------------------------------------------------------
\* The path universe, relative to the two roots.

MARKER == ".test_write_permission"

Root == << >>

MarkerPath == << MARKER >>

PathOrder ==
  << << MARKER >>, << "file0" >>, << "folder1" >>,
     << "folder1", "file1" >>, << "folder1", "folder2" >>,
     << "folder1", "folder2", "folder2" >> >>

Paths == { PathOrder[i] : i \in 1..Len(PathOrder) }

\* The names that may be regular files, and those that may be directories;
\* folder1/folder2 may be either.
CanBeFile(p) == p # << "folder1" >>

CanBeDir(p) == p \in { << "folder1" >>, << "folder1", "folder2" >> }

Parent(p) == SubSeq(p, 1, Len(p) - 1)

Children(d) == { p \in Paths : Parent(p) = d }

\* p is d or lies below d.
IsUnder(p, d) == Len(p) >= Len(d) /\ SubSeq(p, 1, Len(d)) = d

Bytes == { "0", "1" }

Contents == UNION { [1..n -> Bytes] : n \in 0..MaxLen }

Times == 0..MaxTime

\* Permission bits: writable by the owner, or read-only.
ReadOnly == "0444"

Modes == { "0644", ReadOnly }

\* The owner of whatever the synchronizing process creates, and another user.
ProcessOwner == [uid |-> "me", gid |-> "me"]

Owners == { ProcessOwner, [uid |-> "other", gid |-> "other"] }

Absent == [kind |-> "absent"]

Dir == [kind |-> "dir"]

RegularFile(c, mt, ct, mo, o) ==
  [kind |-> "file", content |-> c, mtime |-> mt, ctime |-> ct,
   mode |-> mo, uid |-> o.uid, gid |-> o.gid]

EmptyTree == [p \in Paths |-> Absent]

\* Python's None as a hash result and as a cache value, and as the result
\* of get_file_metadata.
None == << "None", << >> >>

NoMetadata == [absent |-> TRUE]

----------------------------------------------------------------------------
VARIABLES
  src,                \* source tree: Paths -> entry
  rep,                \* replica tree: Paths -> entry
  srcRoot,            \* "dir", "absent", "unlistable" or "file"
  repRoot,            \* "dir", "absent", "unwritable" or "file"
  repCreatable,       \* os.makedirs(replica_path) is permitted
  srcDenied,          \* source files whose open() raises PermissionError
  repDenied,          \* replica files whose write, chmod, utime and unlink
                      \* raise PermissionError (an immutable file)
  source_file_index,  \* the hash cache: cached paths -> digest or None
  proc,               \* "waiting" (constructed, or in time.sleep), "running"
                      \* (in sync_folders), "exit1" (SystemExit 1) or "raised"
  now,                \* the current second
  budget,             \* external changes the environment may still make
  since,              \* the external changes since the last pass
  last,               \* what the last sync_folders() did
  replica_path,       \* self.replica_path: "replica", a directory of its own,
                      \* or "source", the path of the source folder
  walk                \* the sync_folders() in progress, step by step: its
                      \* phase, the directories and files os.walk still
                      \* holds, and what the pass has done so far

vars ==
  << src, rep, srcRoot, repRoot, repCreatable, srcDenied, repDenied,
     source_file_index, proc, now, budget, since, last, replica_path, walk >>

----------------------------------------------------------------------------
\* File Inspector (file_utils.py) and the os / shutil calls it rests on.

\* os.path.exists below a root that is a directory.
Exists(fs, p) == IF Len(p) = 0 THEN TRUE ELSE fs[p].kind # "absent"

IsDir(fs, p) == IF Len(p) = 0 THEN TRUE ELSE fs[p].kind = "dir"

md5(content) == << "md5", content >>

\* hash_file: open(filepath, 'rb') and digest the bytes.
hash_file(fs, unreadable, p) ==
  IF fs[p].kind = "absent" THEN [exc |-> "FileNotFoundError"]
  ELSE IF fs[p].kind = "dir" THEN [exc |-> "IsADirectoryError"]
  ELSE IF p \in unreadable THEN [exc |-> "PermissionError"]
  ELSE [exc |-> "none", value |-> md5(fs[p].content)]

\* get_file_metadata: None when the path does not exist, else the six
\* fields of os.stat.  st_mode carries the file type, so a directory's
\* record never equals a regular file's.
get_file_metadata(fs, p) ==
  IF ~Exists(fs, p) THEN NoMetadata
  ELSE IF fs[p].kind = "dir"
    THEN [ctime |-> 0, mtime |-> 0, mode |-> "dir",
          uid |-> "me", gid |-> "me", size |-> 0]
  ELSE [ctime |-> fs[p].ctime, mtime |-> fs[p].mtime, mode |-> fs[p].mode,
        uid |-> fs[p].uid, gid |-> fs[p].gid, size |-> Len(fs[p].content)]

\* The two records compared with "is": two dicts are never the same object.
same_object(fsA, fsB, p) == FALSE

equal_metadata(fsA, fsB, p) == get_file_metadata(fsA, p) = get_file_metadata(fsB, p)

\* A copy of the attributes that leaves the times alone: chmod without utime.
copy_mode_only(rp, p) ==
  IF src[p].kind = "absent" \/ rp[p].kind = "absent"
    THEN [exc |-> "FileNotFoundError", rep |-> rp]
  ELSE IF p \in repDenied THEN [exc |-> "PermissionError", rep |-> rp]
  ELSE IF rp[p].kind = "dir" \/ src[p].kind = "dir" THEN [exc |-> "none", rep |-> rp]
  ELSE [exc |-> "none",
        rep |-> [rp EXCEPT ![p].mode = src[p].mode, ![p].ctime = now]]

\* shutil.copystat(source, replica): utime and chmod of the replica entry.
\* Returns the replica tree, or the exception raised.
copy_metadata(rp, p) ==
  IF src[p].kind = "absent" \/ rp[p].kind = "absent"
    THEN [exc |-> "FileNotFoundError", rep |-> rp]
  ELSE IF p \in repDenied THEN [exc |-> "PermissionError", rep |-> rp]
  ELSE IF rp[p].kind = "dir" \/ src[p].kind = "dir" THEN [exc |-> "none", rep |-> rp]
  ELSE [exc |-> "none",
        rep |-> [rp EXCEPT ![p].mtime = src[p].mtime,
                           ![p].mode = src[p].mode,
                           ![p].ctime = now]]

\* open(path, 'w') or open(path, 'wb') of an existing replica file is refused
\* when the file is immutable or read-only (the process is not root).
WriteRefused(rp, q) == rp[q].kind = "file" /\ (q \in repDenied \/ rp[q].mode = ReadOnly)

\* Where shutil.copy2 writes: into the destination when it is a directory.
CopyDestination(rp, p) ==
  IF rp[p].kind = "dir" THEN Append(p, p[Len(p)]) ELSE p

\* shutil.copy2(source, replica): copyfile (open the source for reading, the
\* destination for writing) and then copystat.
copy_file(rp, p) ==
  LET dst == CopyDestination(rp, p) IN
  IF src[p].kind = "absent" THEN [exc |-> "FileNotFoundError", rep |-> rp]
  ELSE IF src[p].kind = "dir" THEN [exc |-> "IsADirectoryError", rep |-> rp]
  ELSE IF p \in srcDenied THEN [exc |-> "PermissionError", rep |-> rp]
  ELSE IF dst \notin Paths THEN [exc |-> "OutsideUniverse", rep |-> rp]
  ELSE IF ~IsDir(rp, Parent(dst))
    THEN [exc |-> IF Exists(rp, Parent(dst)) THEN "NotADirectoryError"
                  ELSE "FileNotFoundError",
          rep |-> rp]
  ELSE IF rp[dst].kind = "dir" THEN [exc |-> "IsADirectoryError", rep |-> rp]
  ELSE IF WriteRefused(rp, dst)
    THEN [exc |-> "PermissionError", rep |-> rp]
  ELSE [exc |-> "none",
        rep |-> [rp EXCEPT ![dst] =
                   [kind |-> "file",
                    content |-> src[p].content,
                    mtime |-> src[p].mtime,
                    ctime |-> now,
                    mode |-> src[p].mode,
                    uid |-> IF rp[dst].kind = "file" THEN rp[dst].uid
                            ELSE ProcessOwner.uid,
                    gid |-> IF rp[dst].kind = "file" THEN rp[dst].gid
                            ELSE ProcessOwner.gid]]]

\* shutil.rmtree(path, ignore_errors=True): what can be removed is removed.
RECURSIVE Removable(_, _)
Removable(rp, q) ==
  /\ q \notin repDenied
  /\ \A c \in Children(q) : rp[c].kind = "absent" \/ Removable(rp, c)

RemovedBy(rp, d) == { q \in Paths : IsUnder(q, d) /\ rp[q].kind # "absent" /\ Removable(rp, q) }

remove_folder(rp, d) == [q \in Paths |-> IF q \in RemovedBy(rp, d) THEN Absent ELSE rp[q]]

----------------------------------------------------------------------------
\* Synchronization Engine (folder_synchronizer.py).  A pass works on a
\* record st: the replica tree, the cache and the replica root as the pass
\* changes them, how the pass ends (status), and what it did.

StartOfPass ==
  [rep |-> rep, cache |-> source_file_index, repRoot |-> repRoot,
   status |-> "ok", exc |-> "none", phase |-> "P0",
   copied |-> {}, removed |-> {}, denied |-> {}, hashed |-> {}, restat |-> {}]

\* An exception nobody catches ends sync_folders().
Raise(st, e) == [st EXCEPT !.status = "raised", !.exc = e]

\* The critical message is logged and the exit forgotten.
log_critical_only(st) == st

\* exit(1)
Exit1(st) == [st EXCEPT !.status = "exit1", !.exc = "SystemExit"]

\* The index is made anew with the one entry.
cache_replaced(cache, p, h) == [q \in {p} |-> h]

CachePut(cache, p, h) ==
  [q \in (DOMAIN cache) \cup {p} |-> IF q = p THEN h ELSE cache[q]]

\* _try_copy_file: a PermissionError is logged and ignored.
try_copy_file(st, p) ==
  LET r == copy_file(st.rep, p) IN
  IF r.exc = "none"
    THEN [st EXCEPT !.rep = r.rep, !.copied = @ \cup {p}]
  ELSE IF r.exc = "PermissionError"
    THEN [st EXCEPT !.denied = @ \cup {p}]
  ELSE Raise(st, r.exc)

\* _try_hash_file: None on a PermissionError.
try_hash_file(fs, unreadable, p) ==
  LET r == hash_file(fs, unreadable, p) IN
  IF r.exc = "PermissionError" THEN [exc |-> "none", value |-> None, denied |-> TRUE]
  ELSE IF r.exc = "none" THEN [exc |-> "none", value |-> r.value, denied |-> FALSE]
  ELSE [exc |-> r.exc, value |-> None, denied |-> FALSE]

\* Lines 65-75: the path has a cache entry.
CacheHit(st, p) ==
  LET sh == try_hash_file(src, srcDenied, p)
      s1 == [st EXCEPT !.hashed = @ \cup {p}]
  IN
  IF sh.exc # "none" THEN Raise(s1, sh.exc)
  ELSE IF sh.value = None THEN [s1 EXCEPT !.denied = @ \cup {p}]
  ELSE IF s1.cache[p] # sh.value
    THEN LET c == try_copy_file(s1, p) IN
         IF c.status # "ok" THEN c
         ELSE [c EXCEPT !.cache = CachePut(c.cache, p, sh.value)]
  ELSE s1

\* Lines 77-83: no cache entry; both files are hashed.
CacheMiss(st, p) ==
  LET sh == try_hash_file(src, srcDenied, p)
      rh == try_hash_file(st.rep, {}, p)
      s1 == [st EXCEPT !.hashed = @ \cup {p},
                       !.denied = IF sh.exc = "none" /\ sh.denied
                                  THEN @ \cup {p} ELSE @]
  IN
  IF sh.exc # "none" THEN Raise(s1, sh.exc)
  ELSE IF rh.exc # "none" THEN Raise(s1, rh.exc)
  ELSE LET s2 == [s1 EXCEPT !.cache = CachePut(s1.cache, p, sh.value)] IN
       IF sh.value # rh.value THEN try_copy_file(s2, p) ELSE s2

\* Lines 52-83: one file of the source walk.
SyncFile(st, p) ==
  IF st.status # "ok" THEN st
  ELSE IF ~Exists(st.rep, p) THEN try_copy_file(st, p)
  ELSE IF ~equal_metadata(src, st.rep, p)
    THEN LET m == copy_metadata(st.rep, p) IN
         IF m.exc # "none" THEN Raise(st, m.exc)
         ELSE LET s1 == [st EXCEPT !.rep = m.rep, !.restat = @ \cup {p}] IN
              IF p \in DOMAIN s1.cache THEN CacheHit(s1, p) ELSE CacheMiss(s1, p)
  ELSE st

\* Lines 47-49: os.makedirs of the replica folder when it does not exist.
Prefixes(d) == { SubSeq(d, 1, n) : n \in 1..Len(d) }

EnsureFolder(st, d) ==
  IF st.status # "ok" \/ Exists(st.rep, d) THEN st
  ELSE IF \E a \in Prefixes(d) : st.rep[a].kind = "file"
    THEN Raise(st, "NotADirectoryError")
  ELSE [st EXCEPT !.rep = [q \in Paths |-> IF q \in Prefixes(d) THEN Dir ELSE @[q]]]

\* The entries of directory d as os.scandir returns them: in an order the
\* file system chooses.
Reverse(s) == [i \in 1..Len(s) |-> s[Len(s) + 1 - i]]

ScanDirs == { Root, << "folder1" >> }

ScanOrders == [ScanDirs -> BOOLEAN]

Listing(d, ord) ==
  LET InD(p) == Parent(p) = d
      l == SelectSeq(PathOrder, InD)
  IN IF d \in ScanDirs /\ ord[d] THEN Reverse(l) ELSE l

RECURSIVE SyncFiles(_, _)
SyncFiles(st, ps) ==
  IF ps = << >> THEN st ELSE SyncFiles(SyncFile(st, Head(ps)), Tail(ps))

\* _sync_source_to_replica: os.walk(source), top-down.
RECURSIVE WalkSource(_, _, _)
WalkSource(st, stack, ord) ==
  IF stack = << >> \/ st.status # "ok" THEN st
  ELSE LET d == Head(stack)
           IsFile(p) == src[p].kind = "file"
           IsSub(p) == src[p].kind = "dir"
           l == Listing(d, ord)
           s1 == SyncFiles(EnsureFolder(st, d), SelectSeq(l, IsFile))
       IN WalkSource(s1, SelectSeq(l, IsSub) \o Tail(stack), ord)

sync_source_to_replica(st, ord) == WalkSource(st, << Root >>, ord)

\* Lines 99-104: one file of the replica walk.
PruneFile(st, p) ==
  IF st.status # "ok" \/ Exists(src, p) THEN st
  ELSE IF p \in repDenied THEN Raise(st, "PermissionError")
  ELSE [st EXCEPT !.rep[p] = Absent, !.removed = @ \cup {p}]

RECURSIVE PruneFiles(_, _)
PruneFiles(st, ps) ==
  IF ps = << >> THEN st ELSE PruneFiles(PruneFile(st, Head(ps)), Tail(ps))

\* _sync_replica_to_source: os.walk(replica), top-down.
RECURSIVE WalkReplica(_, _, _)
WalkReplica(st, stack, ord) ==
  IF stack = << >> \/ st.status # "ok" THEN st
  ELSE LET d == Head(stack)
           IsFile(p) == st.rep[p].kind = "file"
           IsSub(p) == st.rep[p].kind = "dir"
           l == Listing(d, ord)
       IN
       IF ~IsDir(st.rep, d) THEN WalkReplica(st, Tail(stack), ord)
       ELSE IF ~Exists(src, d)
         THEN WalkReplica([st EXCEPT !.rep = remove_folder(st.rep, d),
                                     !.removed = @ \cup RemovedBy(st.rep, d)],
                          Tail(stack), ord)
       ELSE WalkReplica(PruneFiles(st, SelectSeq(l, IsFile)),
                        SelectSeq(l, IsSub) \o Tail(stack), ord)

sync_replica_to_source(st, ord) == WalkReplica(st, << Root >>, ord)

\* _ensure_source_exists_and_has_permission
ensure_source_exists_and_has_permission(st) ==
  IF srcRoot = "absent" THEN Exit1(st)
  ELSE IF srcRoot = "unlistable" THEN Exit1(st)
  ELSE IF srcRoot = "file" THEN Raise(st, "NotADirectoryError")
  ELSE st

\* Lines 164-172: open(test_file, 'w') and os.remove(test_file).
WriteProbe(st) ==
  LET m == st.rep[MarkerPath] IN
  IF st.repRoot = "file" THEN Raise(st, "NotADirectoryError")
  ELSE IF m.kind = "dir" THEN Raise(st, "IsADirectoryError")
  ELSE IF WriteRefused(st.rep, MarkerPath) THEN Exit1(st)
  ELSE IF st.repRoot = "unwritable"
    THEN IF m.kind = "absent" THEN Exit1(st)
         ELSE Exit1([st EXCEPT !.rep[MarkerPath].content = << >>,
                               !.rep[MarkerPath].mtime = now,
                               !.rep[MarkerPath].ctime = now])
  ELSE IF m.kind = "file"
    THEN [st EXCEPT !.rep[MarkerPath] = Absent, !.removed = @ \cup {MarkerPath}]
  ELSE st

\* _ensure_replica_exists_and_has_permissions
ensure_replica_exists_and_has_permissions(st) ==
  IF st.repRoot = "absent"
    THEN IF repCreatable THEN WriteProbe([st EXCEPT !.repRoot = "dir"])
         ELSE Exit1(st)
  ELSE WriteProbe(st)

\* _ensure_folders_exist
ensure_folders_exist(st) ==
  LET s1 == ensure_source_exists_and_has_permission(st) IN
  IF s1.status # "ok" THEN s1 ELSE ensure_replica_exists_and_has_permissions(s1)

\* sync_folders: the three phases in order; an exit or an uncaught
\* exception ends the pass in the phase (P0, P1, P2) where it happens.
sync_folders(ord) ==
  LET s0 == ensure_folders_exist(StartOfPass) IN
  IF s0.status # "ok" THEN s0
  ELSE LET s1 == sync_source_to_replica([s0 EXCEPT !.phase = "P1"], ord) IN
       IF s1.status # "ok" THEN s1
       ELSE sync_replica_to_source([s1 EXCEPT !.phase = "P2"], ord)

----------------------------------------------------------------------------
\* History kept for stating the properties: the external changes since the
\* last pass, and a record of the last pass.

NoEdits == [n |-> 0, op |-> "none", path |-> Root, synced |-> FALSE]

EmptyCache == [q \in {} |-> None]

NoPass ==
  [status |-> "none", exc |-> "none", phase |-> "P0", after |-> "none",
   prerep |-> EmptyTree,
   precache |-> EmptyCache, preroot |-> "dir", edit |-> NoEdits,
   copied |-> {}, removed |-> {}, denied |-> {}, hashed |-> {}, restat |-> {}]

\* No pass is in progress.  mutated: the file system was changed from outside
\* during the pass in progress (or, between passes, during the last one);
\* previous: it was during the pass before that one.
NotWalking ==
  [phase |-> "idle", stack |-> << >>, files |-> << >>,
   prerep |-> EmptyTree, precache |-> EmptyCache, preroot |-> "dir",
   edit |-> NoEdits,
   copied |-> {}, removed |-> {}, denied |-> {}, hashed |-> {}, restat |-> {},
   mutated |-> FALSE, previous |-> FALSE]

\* Source and replica mirror each other: the same entries, and every file
\* equal in content and in the attributes a copy can set (mtime, mode) and
\* in its owner.  ctime is the kernel's: it is not part of it.
Synchronized ==
  /\ srcRoot = "dir" /\ repRoot = "dir"
  /\ \A p \in Paths :
       /\ src[p].kind = rep[p].kind
       /\ src[p].kind = "file" =>
            /\ src[p].content = rep[p].content
            /\ src[p].mtime = rep[p].mtime /\ src[p].mode = rep[p].mode
            /\ src[p].uid = rep[p].uid /\ src[p].gid = rep[p].gid

Noted(op, p) ==
  IF since.n = 0
    THEN [n |-> 1, op |-> op, path |-> p, synced |-> Synchronized]
  ELSE [n |-> 2, op |-> "many", path |-> Root, synced |-> FALSE]

\* An external change to the source tree, the permissions or the roots:
\* between two passes, or between two steps of the pass in progress.
External(op, p) ==
  /\ proc # "running" \/ walk.phase # "idle"
  /\ budget > 0
  /\ budget' = budget - 1
  /\ since' = IF walk.phase = "idle" THEN Noted(op, p) ELSE since
  /\ walk' = IF walk.phase = "idle" THEN walk ELSE [walk EXCEPT !.mutated = TRUE]
  /\ UNCHANGED << source_file_index, proc, now, last, replica_path >>

TreeOnly == UNCHANGED << rep, srcRoot, repRoot, repCreatable, srcDenied, repDenied >>

----------------------------------------------------------------------------
\* The initial state: the synchronizer has been constructed (an empty cache),
\* the source holds the tree of the repository's tests (three empty files in
\* nested folders), and the replica is an empty directory.

NewFile(c) == RegularFile(c, now, now, "0644", ProcessOwner)

TestTree ==
  [p \in Paths |->
     IF p \in { << "folder1" >>, << "folder1", "folder2" >> } THEN Dir
     ELSE IF p = MarkerPath THEN Absent
     ELSE RegularFile(<< >>, 0, 0, "0644", ProcessOwner)]

Init ==
  /\ src = TestTree
  /\ rep = EmptyTree
  /\ srcRoot = "dir"
  /\ repRoot = "dir"
  /\ repCreatable = TRUE
  /\ srcDenied = {}
  /\ repDenied = {}
  /\ source_file_index = EmptyCache
  /\ proc = "waiting"
  /\ now = 0
  /\ budget = MaxEdits
  /\ since = NoEdits
  /\ last = NoPass
  /\ replica_path = "replica"
  /\ walk = NotWalking

----------------------------------------------------------------------------
\* The synchronizer.

\* periodic_sync comes round to its next call of sync_folders(), or a caller
\* calls it.
Wake ==
  /\ proc = "waiting"
  /\ proc' = "running"
  /\ UNCHANGED << src, rep, srcRoot, repRoot, repCreatable, srcDenied,
                  repDenied, source_file_index, now, budget, since, last,
                  replica_path, walk >>

\* sync_folders(), one whole pass.
SyncFolders ==
  /\ proc = "running"
  /\ \E ord \in ScanOrders :
       \E r \in { sync_folders(ord) } :
       /\ rep' = r.rep
       /\ source_file_index' = r.cache
       /\ repRoot' = r.repRoot
       /\ proc' = IF r.status = "ok" THEN "waiting" ELSE r.status
       /\ last' = [status |-> r.status, exc |-> r.exc, phase |-> r.phase,
                   after |-> last.status,
                   prerep |-> rep, precache |-> source_file_index,
                   preroot |-> repRoot, edit |-> since,
                   copied |-> r.copied, removed |-> r.removed,
                   denied |-> r.denied, hashed |-> r.hashed,
                   restat |-> r.restat]
  /\ since' = NoEdits
  /\ UNCHANGED << src, srcRoot, repCreatable, srcDenied, repDenied, now, budget,
                  replica_path, walk >>

\* The process is started again after it ended: __init__ makes a new cache.
Restart ==
  /\ proc \in { "exit1", "raised" }
  /\ proc' = "waiting"
  /\ source_file_index' = EmptyCache
  /\ last' = NoPass
  /\ UNCHANGED << src, rep, srcRoot, repRoot, repCreatable, srcDenied,
                  repDenied, now, budget, since, replica_path, walk >>

\* The clock reaches the next second.
Tick ==
  /\ proc # "running" \/ walk.phase # "idle"
  /\ now < MaxTime
  /\ now' = now + 1
  /\ UNCHANGED << src, rep, srcRoot, repRoot, repCreatable, srcDenied,
                  repDenied, source_file_index, proc, budget, since, last,
                  replica_path, walk >>

----------------------------------------------------------------------------
\* sync_folders() step by step.  A step is one iteration of a loop of the
\* pass: the preflight, one directory that os.walk yields, one file of the
\* directory's fnames.  Each step works on the file system as it is when the
\* step is taken, so that the trees may change between two steps.

\* The pass record of the pass in progress.
Walking ==
  [rep |-> rep, cache |-> source_file_index, repRoot |-> repRoot,
   status |-> "ok", exc |-> "none", phase |-> walk.phase,
   copied |-> walk.copied, removed |-> walk.removed, denied |-> walk.denied,
   hashed |-> walk.hashed, restat |-> walk.restat]

\* sync_folders() is entered.
Begun ==
  [walk EXCEPT !.prerep = rep, !.precache = source_file_index,
               !.preroot = repRoot, !.edit = since,
               !.previous = walk.mutated, !.mutated = FALSE]

\* What a step writes.  When replica_path is the source folder's path, the
\* replica tree is the source tree.
Writes(st) ==
  /\ rep' = st.rep
  /\ source_file_index' = st.cache
  /\ repRoot' = st.repRoot
  /\ src' = IF replica_path = "source" THEN st.rep ELSE src
  /\ UNCHANGED << srcRoot, repCreatable, srcDenied, repDenied, now, budget,
                  replica_path >>

\* The pass goes on: os.walk holds the directories stack and the files fnames.
Continue(w, st, phase, stack, fnames) ==
  /\ Writes(st)
  /\ walk' = [w EXCEPT !.phase = phase, !.stack = stack, !.files = fnames,
                       !.copied = st.copied, !.removed = st.removed,
                       !.denied = st.denied, !.hashed = st.hashed,
                       !.restat = st.restat]
  /\ UNCHANGED << proc, since, last >>

\* sync_folders() returns, exits or raises.
Finish(w, st) ==
  /\ Writes(st)
  /\ proc' = IF st.status = "ok" THEN "waiting" ELSE st.status
  /\ last' = [status |-> st.status, exc |-> st.exc, phase |-> st.phase,
              after |-> last.status,
              prerep |-> w.prerep, precache |-> w.precache,
              preroot |-> w.preroot, edit |-> w.edit,
              copied |-> st.copied, removed |-> st.removed,
              denied |-> st.denied, hashed |-> st.hashed,
              restat |-> st.restat]
  /\ since' = NoEdits
  /\ walk' = [NotWalking EXCEPT !.mutated = w.mutated, !.previous = w.previous]

Step(w, st, phase, stack, fnames) ==
  IF st.status = "ok" THEN Continue(w, st, phase, stack, fnames) ELSE Finish(w, st)

\* Line 33: _ensure_folders_exist(), then the source walk begins.
Preflight ==
  /\ proc = "running" /\ walk.phase = "idle"
  /\ \E st \in { ensure_folders_exist(StartOfPass) } :
       Step(Begun, st, "P1", << Root >>, << >>)

\* Lines 42-49: os.walk(source) lists its next directory (a directory that
\* is no longer there is passed over) and the replica folder is created.
ScanSource ==
  /\ walk.phase = "P1" /\ walk.files = << >> /\ walk.stack # << >>
  /\ LET d == Head(walk.stack)
         IsFile(p) == src[p].kind = "file"
         IsSub(p) == src[p].kind = "dir"
     IN
     IF ~IsDir(src, d) THEN Step(walk, Walking, "P1", Tail(walk.stack), << >>)
     ELSE \E ord \in ScanOrders :
            Step(walk, EnsureFolder(Walking, d), "P1",
                 SelectSeq(Listing(d, ord), IsSub) \o Tail(walk.stack),
                 SelectSeq(Listing(d, ord), IsFile))

\* Lines 51-83: the next file of fnames.
SyncStep ==
  /\ walk.phase = "P1" /\ walk.files # << >>
  /\ Step(walk, SyncFile(Walking, Head(walk.files)), "P1",
          walk.stack, Tail(walk.files))

\* Lines 34-35: the source walk is exhausted, the replica walk begins.
EndPropagate ==
  /\ walk.phase = "P1" /\ walk.files = << >> /\ walk.stack = << >>
  /\ Step(walk, [Walking EXCEPT !.phase = "P2"], "P2", << Root >>, << >>)

\* Lines 90-97: os.walk(replica) lists its next directory; a directory
\* without a source counterpart is removed with what it holds.
ScanReplica ==
  /\ walk.phase = "P2" /\ walk.files = << >> /\ walk.stack # << >>
  /\ LET d == Head(walk.stack)
         IsFile(p) == rep[p].kind = "file"
         IsSub(p) == rep[p].kind = "dir"
     IN
     IF ~IsDir(rep, d) THEN Step(walk, Walking, "P2", Tail(walk.stack), << >>)
     ELSE IF ~Exists(src, d)
       THEN Step(walk, [Walking EXCEPT !.rep = remove_folder(rep, d),
                                       !.removed = @ \cup RemovedBy(rep, d)],
                 "P2", Tail(walk.stack), << >>)
     ELSE \E ord \in ScanOrders :
            Step(walk, Walking, "P2",
                 SelectSeq(Listing(d, ord), IsSub) \o Tail(walk.stack),
                 SelectSeq(Listing(d, ord), IsFile))

\* Lines 99-104: the next file of fnames.
PruneStep ==
  /\ walk.phase = "P2" /\ walk.files # << >>
  /\ Step(walk, PruneFile(Walking, Head(walk.files)), "P2",
          walk.stack, Tail(walk.files))

\* Line 35 returns: the replica walk is exhausted.
EndPass ==
  /\ walk.phase = "P2" /\ walk.files = << >> /\ walk.stack = << >>
  /\ Finish(walk, Walking)

WalkStep ==
  \/ Preflight
  \/ ScanSource
  \/ SyncStep
  \/ EndPropagate
  \/ ScanReplica
  \/ PruneStep
  \/ EndPass

----------------------------------------------------------------------------
\* External edits of the source tree, between passes.

CreateFile(p, c) ==
  /\ srcRoot = "dir" /\ CanBeFile(p)
  /\ src[p].kind = "absent" /\ IsDir(src, Parent(p))
  /\ src' = [src EXCEPT ![p] = NewFile(c)]
  /\ External("create", p) /\ TreeOnly

MkDir(p) ==
  /\ srcRoot = "dir" /\ CanBeDir(p)
  /\ src[p].kind = "absent" /\ IsDir(src, Parent(p))
  /\ src' = [src EXCEPT ![p] = Dir]
  /\ External("mkdir", p) /\ TreeOnly

\* The file's bytes are rewritten: mtime and ctime become the current second.
WriteFile(p, c) ==
  /\ srcRoot = "dir"
  /\ src[p].kind = "file" /\ src[p].content # c
  /\ src' = [src EXCEPT ![p].content = c, ![p].mtime = now, ![p].ctime = now]
  /\ External("write", p) /\ TreeOnly

\* os.utime(path, (time.time(), time.time()))
TouchFile(p) ==
  /\ srcRoot = "dir"
  /\ src[p].kind = "file" /\ << src[p].mtime, src[p].ctime >> # << now, now >>
  /\ src' = [src EXCEPT ![p].mtime = now, ![p].ctime = now]
  /\ External("touch", p) /\ TreeOnly

ChmodFile(p, m) ==
  /\ srcRoot = "dir"
  /\ src[p].kind = "file" /\ src[p].mode # m
  /\ src' = [src EXCEPT ![p].mode = m, ![p].ctime = now]
  /\ External("chmod", p) /\ TreeOnly

ChownFile(p, o) ==
  /\ srcRoot = "dir"
  /\ src[p].kind = "file" /\ << src[p].uid, src[p].gid >> # << o.uid, o.gid >>
  /\ src' = [src EXCEPT ![p].uid = o.uid, ![p].gid = o.gid, ![p].ctime = now]
  /\ External("chown", p) /\ TreeOnly

\* os.remove of a file, shutil.rmtree of a directory.
DeletePath(p) ==
  /\ srcRoot = "dir"
  /\ src[p].kind # "absent"
  /\ src' = [q \in Paths |-> IF IsUnder(q, p) THEN Absent ELSE src[q]]
  /\ srcDenied' = { q \in srcDenied : ~IsUnder(q, p) }
  /\ External("delete", p)
  /\ UNCHANGED << rep, srcRoot, repRoot, repCreatable, repDenied >>

----------------------------------------------------------------------------
\* External changes of permissions: a source file becomes unreadable or
\* readable again, a replica file immutable or mutable again.

DenyRead(p) ==
  /\ srcRoot = "dir"
  /\ src[p].kind = "file" /\ p \notin srcDenied
  /\ srcDenied' = srcDenied \cup {p}
  /\ External("deny", p)
  /\ UNCHANGED << src, rep, srcRoot, repRoot, repCreatable, repDenied >>

GrantRead(p) ==
  /\ p \in srcDenied
  /\ srcDenied' = srcDenied \ {p}
  /\ External("grant", p)
  /\ UNCHANGED << src, rep, srcRoot, repRoot, repCreatable, repDenied >>

MakeImmutable(p) ==
  /\ repRoot = "dir"
  /\ rep[p].kind = "file" /\ p \notin repDenied
  /\ repDenied' = repDenied \cup {p}
  /\ External("deny", p)
  /\ UNCHANGED << src, rep, srcRoot, repRoot, repCreatable, srcDenied >>

MakeMutable(p) ==
  /\ p \in repDenied
  /\ repDenied' = repDenied \ {p}
  /\ External("grant", p)
  /\ UNCHANGED << src, rep, srcRoot, repRoot, repCreatable, srcDenied >>

\* chmod u+w of a read-only replica file.
MakeWritable(p) ==
  /\ repRoot = "dir"
  /\ rep[p].kind = "file" /\ rep[p].mode = ReadOnly /\ p \notin repDenied
  /\ rep' = [rep EXCEPT ![p].mode = "0644", ![p].ctime = now]
  /\ External("grant", p)
  /\ UNCHANGED << src, srcRoot, repRoot, repCreatable, srcDenied, repDenied >>

----------------------------------------------------------------------------
\* External changes of the two roots.  A root that is removed or replaced
\* by a regular file loses its tree.

RootKinds == { "dir", "absent", "file" }

SetSourceRoot(k) ==
  /\ k \in (RootKinds \cup { "unlistable" }) \ { srcRoot }
  /\ srcRoot' = k
  /\ src' = IF { k, srcRoot } \subseteq { "dir", "unlistable" } THEN src ELSE EmptyTree
  /\ srcDenied' = IF { k, srcRoot } \subseteq { "dir", "unlistable" } THEN srcDenied ELSE {}
  /\ External("root", Root)
  /\ UNCHANGED << rep, repRoot, repCreatable, repDenied >>

SetReplicaRoot(k) ==
  /\ k \in (RootKinds \cup { "unwritable" }) \ { repRoot }
  /\ repRoot' = k
  /\ rep' = IF { k, repRoot } \subseteq { "dir", "unwritable" } THEN rep ELSE EmptyTree
  /\ repDenied' = IF { k, repRoot } \subseteq { "dir", "unwritable" } THEN repDenied ELSE {}
  /\ External("root", Root)
  /\ UNCHANGED << src, srcRoot, repCreatable, srcDenied >>

SetReplicaCreatable(b) ==
  /\ b # repCreatable
  /\ repCreatable' = b
  /\ External("root", Root)
  /\ UNCHANGED << src, rep, srcRoot, repRoot, srcDenied, repDenied >>

----------------------------------------------------------------------------
\* Specifications.

\* Any edit of the source tree between passes.
SourceEdit ==
  \/ \E p \in Paths, c \in Contents : CreateFile(p, c)
  \/ \E p \in Paths : MkDir(p)
  \/ \E p \in Paths, c \in Contents : WriteFile(p, c)
  \/ \E p \in Paths : TouchFile(p)
  \/ \E p \in Paths, m \in Modes : ChmodFile(p, m)
  \/ \E p \in Paths, o \in Owners : ChownFile(p, o)
  \/ \E p \in Paths : DeletePath(p)

Next == Wake \/ SyncFolders \/ Restart \/ Tick \/ SourceEdit

Spec == Init /\ [][Next]_vars

\* One more external change, all of them on one file: its content, its
\* metadata and the permissions on it and on its replica.
File0 == << "file0" >>

InitFile ==
  /\ Init!1 /\ Init!2 /\ Init!3 /\ Init!4 /\ Init!5 /\ Init!6 /\ Init!7
  /\ Init!8 /\ Init!9 /\ Init!10
  /\ budget = MaxEdits + 1
  /\ since = NoEdits
  /\ last = NoPass
  /\ replica_path = "replica"
  /\ walk = NotWalking

FileEdit ==
  \/ \E c \in Contents : CreateFile(File0, c)
  \/ \E c \in Contents : WriteFile(File0, c)
  \/ TouchFile(File0)
  \/ \E m \in Modes : ChmodFile(File0, m)
  \/ \E o \in Owners : ChownFile(File0, o)
  \/ DeletePath(File0)
  \/ DenyRead(File0)
  \/ GrantRead(File0)
  \/ MakeImmutable(File0)
  \/ MakeMutable(File0)
  \/ MakeWritable(File0)

NextFile == Wake \/ SyncFolders \/ Restart \/ Tick \/ FileEdit

SpecFile == InitFile /\ [][NextFile]_vars

\* periodic_sync calls sync_folders() again and again while the process
\* runs, and a pass that has begun ends: it returns, exits or raises.  Under
\* NextFile the only step that takes proc out of "running" is SyncFolders.
PassEnds == proc = "running" /\ \E k \in { "waiting", "exit1", "raised" } : proc' = k

FairSpecFile == SpecFile /\ WF_proc(Wake) /\ WF_proc(PassEnds)

\* The roots change.
RootChange ==
  \/ \E k \in RootKinds \cup { "unlistable" } : SetSourceRoot(k)
  \/ \E k \in RootKinds \cup { "unwritable" } : SetReplicaRoot(k)
  \/ \E b \in BOOLEAN : SetReplicaCreatable(b)

NextRoot == Wake \/ SyncFolders \/ Restart \/ Tick \/ RootChange

SpecRoot == Init /\ [][NextRoot]_vars

\* The pass taken step by step, with the changes to one file and to the
\* permissions on it made at any time, also between two steps of a pass.
NextWalk == Wake \/ WalkStep \/ Restart \/ Tick \/ FileEdit

SpecWalk == Init /\ [][NextWalk]_vars

\* The pass taken step by step, with the roots changing between passes.
RootChangeBetweenPasses == walk.phase = "idle" /\ RootChange

NextWalkRoot == Wake \/ WalkStep \/ Restart \/ Tick \/ RootChangeBetweenPasses

SpecWalkRoot == Init /\ [][NextWalkRoot]_vars

\* replica_path is the path of the source folder: FolderSynchronizer(p, p, n).
\* The source holds the test tree, with or without a file named as the
\* preflight's marker.
InitSame ==
  /\ src \in { TestTree,
               [TestTree EXCEPT ![MarkerPath] =
                  RegularFile(<< >>, 0, 0, "0644", ProcessOwner)] }
  /\ rep = src
  /\ Init!3 /\ Init!4 /\ Init!5 /\ Init!6 /\ Init!7 /\ Init!8 /\ Init!9
  /\ Init!10
  /\ budget = 0
  /\ since = NoEdits
  /\ last = NoPass
  /\ replica_path = "source"
  /\ walk = NotWalking

NextSame == Wake \/ WalkStep \/ Tick

SpecSame == InitSame /\ [][NextSame]_vars

\* The replica folder is there before the synchronizer is constructed, empty
\* or holding a file named as the preflight's marker; the pass is taken step
\* by step and the roots change between passes.
ProbeReplicas ==
  { EmptyTree } \cup
  { [EmptyTree EXCEPT ![MarkerPath] = RegularFile(c, 0, 0, m, ProcessOwner)] :
      c \in Contents, m \in Modes }

InitProbe ==
  /\ src = TestTree
  /\ rep \in ProbeReplicas
  /\ Init!3 /\ Init!4 /\ Init!5 /\ Init!6 /\ Init!7 /\ Init!8 /\ Init!9
  /\ Init!10 /\ Init!11
  /\ since = NoEdits
  /\ last = NoPass
  /\ replica_path = "replica"
  /\ walk = NotWalking

SpecProbe == InitProbe /\ [][NextWalkRoot]_vars

----------------------------------------------------------------------------
\* Properties.  last describes the most recent sync_folders(); since.n = 0
\* says nothing outside the synchronizer has changed after it.

PassDone == last.status # "none" /\ since.n = 0

AfterPass == last.status = "ok" /\ since.n = 0

FailureFree == last.denied = {}

SameEntries == \A p \in Paths : src[p].kind = rep[p].kind

ContentEqual(p) == rep[p].kind = "file" /\ rep[p].content = src[p].content

\* The attributes a copy sets on the replica file.
CopiedAttributesEqual(p) ==
  /\ rep[p].kind = "file"
  /\ rep[p].mtime = src[p].mtime
  /\ rep[p].mode = src[p].mode

OwnerEqual(p) ==
  /\ rep[p].kind = "file"
  /\ rep[p].uid = src[p].uid
  /\ rep[p].gid = src[p].gid

SourceFiles == { p \in Paths : src[p].kind = "file" }

\* What the last pass found changed: one edit of kind op on a pair that was
\* synchronized before it.
OneEdit(op) == last.edit.n = 1 /\ last.edit.op = op /\ last.edit.synced

Edited == last.edit.path

MtimeChanged(p) ==
  /\ src[p].kind = "file" /\ last.prerep[p].kind = "file"
  /\ src[p].mtime # last.prerep[p].mtime

\* C1 (Convergence): after one failure-free pass into an empty replica, the
\* replica has exactly the source's directories and files, and every replica
\* file has its source file's content, mtime, mode, uid and gid.
C1_Convergence ==
  (AfterPass /\ FailureFree /\ last.prerep = EmptyTree) =>
    /\ SameEntries
    /\ \A p \in SourceFiles :
         ContentEqual(p) /\ CopiedAttributesEqual(p) /\ OwnerEqual(p)

\* C2 (Content-change detection): in a synchronized pair a source file's
\* bytes and mtime change; after the next failure-free pass the replica file
\* has the source's content and metadata (read here as the attributes a copy
\* sets) and the cache entry of the path is the digest of the new content.
C2_ContentChangeDetected ==
  (AfterPass /\ FailureFree /\ OneEdit("write") /\ MtimeChanged(Edited)) =>
    /\ ContentEqual(Edited)
    /\ CopiedAttributesEqual(Edited)
    /\ Edited \in DOMAIN source_file_index
    /\ source_file_index[Edited] = md5(src[Edited].content)

\* C3 (Pass post-condition): after every pass that completes without a
\* permission failure the replica has the source's directories and files and
\* every file has equal content and equal metadata (read here as the
\* attributes a copy sets; the six-field equality is stronger).
C3_PassPostCondition ==
  (AfterPass /\ FailureFree) =>
    /\ SameEntries
    /\ \A p \in SourceFiles : ContentEqual(p) /\ CopiedAttributesEqual(p)

\* A replica entry without its ctime, which every write to the file moves.
Visible(e) == IF e.kind = "file" THEN [e EXCEPT !.ctime = 0] ELSE e

C6_PermissionFailureIsolated ==
  ~(last.phase = "P1" /\ last.status # "ok" /\ last.exc = "PermissionError")

\* C7 (Retry after failure): a pass could not copy or digest a file for want
\* of permission and left the replica file divergent; the permission is then
\* restored and nothing else changes; the replica file eventually becomes
\* content-equal to the source file.
Divergent(p) == src[p].kind = "file" /\ ~ContentEqual(p)

FailedThenRestored(p) ==
  /\ last.status = "ok" /\ p \in last.denied
  /\ since.n = 1 /\ since.op = "grant" /\ since.path = p
  /\ p \notin srcDenied /\ ~WriteRefused(rep, p)
  /\ budget = 0
  /\ Divergent(p)

C7_RetryAfterFailure ==
  \A p \in Paths : FailedThenRestored(p) ~> ~Divergent(p)

\* C8 (Fatal preflight): when the source root does not exist or cannot be
\* listed, or the replica root cannot be created or is not writable, the
\* pass ends with SystemExit code 1.
FatalPreflight ==
  \/ srcRoot # "dir"
  \/ last.preroot \in { "unwritable", "file" }
  \/ last.preroot = "absent" /\ ~repCreatable

C8_FatalPreflightExits ==
  (PassDone /\ FatalPreflight) => last.status = "exit1"

\* C9 (Idempotence): the second of two passes in succession, with no change
\* of the file system between them, leaves the replica as the first left it
\* (ctime aside) and copies no content.
C9_Idempotence ==
  (last.status = "ok" /\ last.after = "ok" /\ last.edit.n = 0) =>
    /\ \A p \in Paths : Visible(rep[p]) = Visible(last.prerep[p])
    /\ last.copied = {}

\* C10 (Cache correctness): in a synchronized pair a source file's mtime
\* changes and its bytes do not; after the next failure-free pass the cache
\* has an entry for the file, the digest of the source file's content.
C10_CacheCorrectness ==
  (AfterPass /\ FailureFree /\ OneEdit("touch") /\ MtimeChanged(Edited)) =>
    /\ Edited \in DOMAIN source_file_index
    /\ source_file_index[Edited] = md5(src[Edited].content)

\* C11 (One-way synchronization): no step of sync_folders(), in any of its
\* phases and whatever the source, the replica and the cache hold, creates,
\* changes or deletes an entry of the source tree.
C11_OneWay == [][WalkStep => src' = src]_vars

\* C12 (Periodic loop): while no fatal preflight condition arises (none can
\* under this specification: the roots stay accessible), periodic_sync never
\* ends, every pass returns and is followed by another pass, and a pass
\* begins only when the one before it has returned.
C12_PeriodicLoop ==
  /\ [](proc \in { "waiting", "running" })
  /\ (proc = "running") ~> (proc = "waiting")
  /\ (proc = "waiting") ~> (proc = "running")
  /\ [][(proc' = "running" /\ proc # "running") => proc = "waiting"]_vars

\* C13 (Phase order): the phases of a pass follow one another in the order
\* P0, P1, P2; the preflight step touches nothing of the replica but its
\* marker file and not the cache, no step of P1 removes a replica entry, and
\* no step of P2 creates or changes a replica entry or the cache.  A pass
\* whose preflight meets a fatal condition ends in P0: it has copied and
\* removed nothing, every replica entry is as it was, and so is the cache.
PhaseOrder ==
  /\ walk.phase = "idle" =>
        /\ walk'.phase \in { "idle", "P1" }
        /\ \A p \in Paths \ { MarkerPath } : rep'[p] = rep[p]
        /\ source_file_index' = source_file_index
  /\ walk.phase = "P1" =>
        /\ walk'.phase \in { "P1", "P2", "idle" }
        /\ \A p \in Paths : rep[p].kind # "absent" => rep'[p].kind # "absent"
  /\ walk.phase = "P2" =>
        /\ walk'.phase \in { "P2", "idle" }
        /\ \A p \in Paths : rep'[p] \in { rep[p], Absent }
        /\ source_file_index' = source_file_index

FatalEndsInPreflight ==
  (PassDone /\ FatalPreflight) =>
    /\ last.phase = "P0" /\ last.status # "ok"
    /\ last.copied = {} /\ last.removed = {}
    /\ last.hashed = {} /\ last.restat = {}
    /\ rep = last.prerep
    /\ source_file_index = last.precache

C13_PhaseOrder == [][WalkStep => PhaseOrder]_vars /\ []FatalEndsInPreflight

\* C13's case: the preflight of a pass found the root of a replica that
\* holds files not writable, and the pass ended there with exit(1).
C13_Witness ==
  /\ PassDone /\ FatalPreflight
  /\ last.preroot = "unwritable" /\ last.status = "exit1" /\ last.phase = "P0"
  /\ \E p \in Paths : last.prerep[p].kind = "file" /\ rep[p] = last.prerep[p]

\* The step of the source walk that handles file p, and what the pass has
\* copied once the step is taken.
SyncStepOn(p) ==
  walk.phase = "P1" /\ walk.files # << >> /\ Head(walk.files) = p /\ SyncStep

CopiedAfterStep == IF walk'.phase = "idle" THEN last'.copied ELSE walk'.copied

HashedAfterStep == IF walk'.phase = "idle" THEN last'.hashed ELSE walk'.hashed

OnBothSides(p) == src[p].kind = "file" /\ rep[p].kind = "file"

SixFieldsEqual(p) ==
  /\ src[p].ctime = rep[p].ctime /\ src[p].mtime = rep[p].mtime
  /\ src[p].mode = rep[p].mode
  /\ src[p].uid = rep[p].uid /\ src[p].gid = rep[p].gid
  /\ Len(src[p].content) = Len(rep[p].content)

\* C14 (Content copy only on content change): when the source walk comes to
\* a file that is on both sides with different metadata, it copies the
\* content only if the two contents differ at that moment; when they are
\* equal it copies nothing and leaves the file's cache entry, whatever it
\* holds, as it is.
C14_CopyOnlyOnContentChange ==
  [][\A p \in Paths :
       (SyncStepOn(p) /\ OnBothSides(p) /\ ~SixFieldsEqual(p)) =>
         /\ p \in CopiedAfterStep \ walk.copied =>
              src[p].content # rep[p].content
         /\ src[p].content = rep[p].content =>
              /\ rep'[p].content = rep[p].content
              /\ p \in DOMAIN source_file_index =>
                   source_file_index'[p] = source_file_index[p]]_vars

\* C15 (Cache value invariant): every value in the hash cache is a content
\* digest, never the None of a failed hash; and after a pass that found the
\* metadata of a readable source file different, the file's cache entry is
\* the digest of the file's content, not of an older one.
C15_CacheValueInvariant ==
  \A p \in DOMAIN source_file_index :
    /\ source_file_index[p] # None
    /\ (PassDone /\ p \in last.restat /\ src[p].kind = "file" /\ p \notin srcDenied) =>
         source_file_index[p] = md5(src[p].content)

\* C16 (Cache monotonicity): while the process lives (a process started
\* again has a new, empty cache), no step of a pass and no change of the
\* file system takes a key out of the hash cache, also not the deletion of
\* the key's source file; and the cache changes only in a step of the source
\* walk on a file that is in the replica with different metadata, and only
\* in that file's entry.
CacheKept == source_file_index' = source_file_index

C16_CacheMonotone ==
  [][~Restart =>
       /\ DOMAIN source_file_index \subseteq DOMAIN source_file_index'
       /\ CacheKept \/
            \E p \in Paths :
              /\ SyncStepOn(p)
              /\ Exists(rep, p)
              /\ get_file_metadata(src, p) # get_file_metadata(rep, p)
              /\ \A q \in DOMAIN source_file_index \ {p} :
                   source_file_index'[q] = source_file_index[q]]_vars

\* C16's case: a source file with a cache entry was deleted, a pass has
\* removed its replica, and the entry is still in the cache.
C16_Witness ==
  /\ last.status = "ok"
  /\ \E p \in DOMAIN source_file_index :
       /\ src[p].kind = "absent" /\ rep[p].kind = "absent"
       /\ p \in last.removed

\* C17 (No-action branch): when the source walk comes to a file that is on
\* both sides with identical metadata (the six fields), the step copies
\* nothing, hashes nothing and changes no cache entry: the replica tree and
\* the cache are after the step what they were before it, and the pass
\* goes on.
C17_NoActionBranch ==
  [][\A p \in Paths :
       (SyncStepOn(p) /\ OnBothSides(p) /\ SixFieldsEqual(p)) =>
         /\ rep' = rep /\ CacheKept
         /\ CopiedAfterStep = walk.copied
         /\ HashedAfterStep = walk.hashed
         /\ walk'.phase = "P1"]_vars

\* C17's case: a pass, undisturbed, came to a file whose replica had the same
\* six fields, and has left it alone.
C17_Witness ==
  /\ walk.phase = "idle" /\ ~walk.mutated /\ AfterPass
  /\ \E p \in Paths :
       /\ OnBothSides(p) /\ SixFieldsEqual(p)
       /\ last.prerep[p] = rep[p]
       /\ p \notin last.copied \cup last.hashed \cup last.restat

\* The step of the replica walk that handles file p.
PruneStepOn(p) ==
  walk.phase = "P2" /\ walk.files # << >> /\ Head(walk.files) = p /\ PruneStep

\* C18 (Prune rule for files): when the replica walk comes to a file in a
\* directory whose source counterpart exists, the step deletes the file if
\* and only if the source has no file of that name there; and no step of a
\* pass deletes a replica file that has a source file counterpart.
C18_PruneRule ==
  [][\A p \in Paths :
       /\ (PruneStepOn(p) /\ rep[p].kind = "file" /\ IsDir(src, Parent(p))) =>
            (rep'[p].kind = "absent" <=> src[p].kind # "file")
       /\ (WalkStep /\ OnBothSides(p)) => rep'[p].kind = "file"]_vars

\* C19 (Failure isolation in P2): a permission failure in deleting a stale
\* replica entry never ends the pass; the pass goes on, and when it has
\* returned the only entries left in the replica without a source
\* counterpart are those whose deletion failed.
C19_PruneFailureIsolated ==
  /\ ~(last.phase = "P2" /\ last.status # "ok" /\ last.exc = "PermissionError")
  /\ AfterPass =>
       \A p \in Paths :
         (rep[p].kind # "absent" /\ ~Exists(src, p)) => ~Removable(rep, p)

\* C20 (Recovery from concurrent external mutation): a pass during which
\* the trees were changed from outside has returned; the next pass runs with
\* no change from outside before or during it and meets no permission
\* failure; after it the replica has the source's directories and files and
\* no other entry, and every file has equal content and equal metadata
\* (read, as in C3, as the attributes a copy sets).
AfterQuietPass ==
  /\ walk.phase = "idle" /\ AfterPass /\ FailureFree
  /\ ~walk.mutated /\ last.edit.n = 0

C20_RecoveryFromConcurrentMutation ==
  (AfterQuietPass /\ walk.previous /\ last.after = "ok") =>
    /\ SameEntries
    /\ \A p \in SourceFiles : ContentEqual(p) /\ CopiedAttributesEqual(p)

\* C21 (Kind conflicts): a name is a regular file in the source and a
\* directory in the replica, or a directory in the source and a regular file
\* in the replica, when sync_folders() is called; the pass ends without an
\* exception nobody handles, and after it the replica entry of that name has
\* the kind of the source entry and its content: the bytes of a file, the
\* entries of a directory.
KindConflict(fs, p) == { src[p].kind, fs[p].kind } = { "file", "dir" }

SameContent(p) ==
  /\ src[p].kind = "file" => rep[p].content = src[p].content
  /\ src[p].kind = "dir" =>
       \A q \in Paths : IsUnder(q, p) =>
         /\ rep[q].kind = src[q].kind
         /\ src[q].kind = "file" => rep[q].content = src[q].content

C21_KindConflicts ==
  \A p \in Paths :
    (PassDone /\ KindConflict(last.prerep, p)) =>
      /\ last.status # "raised"
      /\ rep[p].kind = src[p].kind
      /\ SameContent(p)

\* C22 (Preflight write probe is neutral): when the preflight succeeds (the
\* pass goes on to the source walk), the replica tree after the preflight has
\* the files it had before it, with the same content, whatever the replica
\* held, a file named .test_write_permission included.
PreflightSucceeds == Preflight /\ walk'.phase = "P1"

SameFiles(fsA, fsB) ==
  \A p \in Paths :
    /\ fsA[p].kind = fsB[p].kind
    /\ fsA[p].kind = "file" => fsA[p].content = fsB[p].content

C22_WriteProbeNeutral == [][PreflightSucceeds => SameFiles(rep, rep')]_vars

====
